---------------------------- MODULE Spec2Model ----------------------------
(***************************************************************************)
(* State-machine model of ReciclajeJuegoComponent                          *)
(* (src/src/app/reciclaje-juego/reciclaje-juego.component.ts): the         *)
(* recycling mini-game's registry of floor trash and bins, the carry slot, *)
(* the score and game state, the keyboard intents and the frame loop.      *)
(*                                                                         *)
(* Geometry.  World positions are <<x, z>> pairs of integers in world      *)
(* units; every object of the game lies on the ground plane, so the        *)
(* height is left out of the distance.  Distances are compared squared.    *)
(* The frame time delta is a multiple of 3*pi/5 seconds: in one such       *)
(* quantum the player turns rotationSpeed * delta = 3*pi/2 radians (three  *)
(* quarter turns) and walks speed * delta = 188.5, rounded to 189, world   *)
(* units, so the orientation stays on the four axis directions.            *)
(*                                                                         *)
(* Not modelled: rendering, camera, sounds, label sprites, the scale of    *)
(* the carried object, the two menu toggles, and restartGame (it reloads   *)
(* the page, which starts a new component).                                *)
(***************************************************************************)
EXTENDS Integers, Sequences, FiniteSets, TLC

VARIABLES
    playerLoad,    \* "pending" | "done" | "failed": the hombre.glb request
    binLoad,       \* per binConfigs index, the state of its request
    packLoad,      \* the mecato.glb request
    extraLoad,     \* per extraConfigs index, the state of its request
    player,        \* TRUE once this.player is set
    playerPos,     \* player.position, <<x, z>>
    playerRot,     \* player.rotation.y in quarter turns, modulo 4
    walkAction,    \* "none" (undefined) | "paused" | "running"
    moveForward,   \* -1 | 0 | 1
    turn,          \* -1 | 0 | 1
    objects,       \* per trash id: the THREE object (type, position, parent)
    trashItems,    \* the floor list: a sequence of trash ids
    bins,          \* the bins list: a sequence of [type, pos]
    carryingItem,  \* a trash id, or NULL
    recycledCount, \* per type, the number of correct deposits
    score,
    gameState,     \* "playing" | "win" | "lose"
    showWinMenu,
    showLoseMenu,
    hudMessage,    \* [text, type, puntos]: the template and what it interpolates
    destroyed,     \* TRUE once ngOnDestroy has run
    afterEnd,      \* observer: the last key event or frame delivered since the
                   \*   game ended ("none" until then)
    qCands,        \* the nearest query on its own: candidate positions,
    qOrigin,       \*   the origin,
    qRadius,       \*   the radius,
    qResult,       \*   and the index returned (0: none), -1 before the call
    tickPc,        \* "idle" | "running": whether a call of animate is under way
    frameRequests, \* the animation frame requests made and not yet served
    tally          \* observer: the deposits seen so far, [correct, wrong]

vars == <<playerLoad, binLoad, packLoad, extraLoad, player, playerPos, playerRot,
          walkAction, moveForward, turn, objects, trashItems, bins, carryingItem,
          recycledCount, score, gameState, showWinMenu, showLoseMenu, hudMessage,
          destroyed, afterEnd, qCands, qOrigin, qRadius, qResult, tickPc,
          frameRequests, tally>>

gameVars == <<playerLoad, binLoad, packLoad, extraLoad, player, playerPos, playerRot,
              walkAction, moveForward, turn, objects, trashItems, bins, carryingItem,
              recycledCount, score, gameState, showWinMenu, showLoseMenu, hudMessage,
              destroyed>>

queryVars == <<qCands, qOrigin, qRadius, qResult>>

loopVars == <<tickPc, frameRequests>>

-----------------------------------------------------------------------------
(* Bounds of the model. *)

\* The longest frame, in quanta of 3*pi/5 seconds.
MaxDelta == 1
\* The longest candidate list of the nearest query checked on its own.
MaxCands == 3

-----------------------------------------------------------------------------
(* Constants of the program. *)

NULL == 0

TrashType == {"organico", "reciclable", "general"}

pickupDistance == 40
binDistance == 70
winScore == 5
loseScore == -2

\* binConfigs: the three bins, their types and positions.
binConfigs ==
    << [type |-> "organico",   pos |-> <<-150, 200>>],
       [type |-> "general",    pos |-> <<0, 200>>],
       [type |-> "reciclable", pos |-> <<150, 200>>] >>

\* trashConfigs, cut to its first three entries (one of each type) with one
\* instance each instead of two: the trash ids each entry spawns.
trashConfigs ==
    << [type |-> "organico",   ids |-> <<1>>],
       [type |-> "general",    ids |-> <<2>>],
       [type |-> "reciclable", ids |-> <<3>>] >>

\* extraConfigs, cut to its first entry, with its two instances.
extraConfigs ==
    << [type |-> "general", ids |-> <<4, 5>>] >>

TrashIds == 1..5

\* The places (Math.random() - 0.5) * 2 * areaSize puts a trash object at, cut
\* to one place 30 units from the origin.
RandomSpots == { <<0, 30>> }

\* The local position the carried object is given, rounded to the grid.
HandOffset == <<0, 0>>


-----------------------------------------------------------------------------
(* Pure helpers. *)

\* Vector3.distanceTo, squared.
Dist2(a, b) == (a[1] - b[1]) * (a[1] - b[1]) + (a[2] - b[2]) * (a[2] - b[2])

\* The loop of findNearestTrash and findNearestBin over the candidates'
\* world positions, from index i on: minD2 is minDist squared and nearest the
\* index kept so far (0: null).  A candidate replaces the one kept only when
\* it is strictly nearer.
RECURSIVE ScanNearest(_, _, _, _, _)
ScanNearest(cands, i, origin, minD2, nearest) ==
    IF i > Len(cands) THEN nearest
    ELSE LET d2 == Dist2(cands[i], origin)
         IN  IF d2 < minD2
             THEN ScanNearest(cands, i + 1, origin, d2, i)
             ELSE ScanNearest(cands, i + 1, origin, minD2, nearest)

\* A query that also takes a candidate at exactly maxDistance.
NearestIndex_inclusive(cands, origin, maxDistance) ==
    ScanNearest(cands, 1, origin, maxDistance * maxDistance + 1, 0)

\* let nearest = null; let minDist = maxDistance; the loop; return nearest.
NearestIndex(cands, origin, maxDistance) ==
    ScanNearest(cands, 1, origin, maxDistance * maxDistance, 0)

\* getWorldPosition of a floor trash object.
TrashWorldPos(id) == objects[id].pos

\* A query that returns the first floor item within maxDistance, not the
\* nearest.
findNearestTrash_first(playerPos_, maxDistance) ==
    LET near == { k \in 1..Len(trashItems) :
                    Dist2(TrashWorldPos(trashItems[k]), playerPos_) < maxDistance * maxDistance }
    IN  IF near = {} THEN NULL
        ELSE trashItems[CHOOSE k \in near : \A j \in near : k <= j]

findNearestTrash(playerPos_, maxDistance) ==
    LET idx == NearestIndex([k \in 1..Len(trashItems) |-> TrashWorldPos(trashItems[k])],
                            playerPos_, maxDistance)
    IN  IF idx = 0 THEN NULL ELSE trashItems[idx]

\* The bin found, as its index in bins (0: null).
findNearestBin(playerPos_, maxDistance) ==
    NearestIndex([k \in 1..Len(bins) |-> bins[k].pos], playerPos_, maxDistance)

\* The keys the keyboard sends, as e.key gives them.
Keys == {"w", "ArrowUp", "s", "a", "d", "e", "E", "x"}

\* e.key.toLowerCase() on Keys.
toLowerCase(k) ==
    CASE k = "W" -> "w"
      [] k = "E" -> "e"
      [] k = "ArrowUp" -> "arrowup"
      [] k = "ArrowDown" -> "arrowdown"
      [] k = "ArrowLeft" -> "arrowleft"
      [] k = "ArrowRight" -> "arrowright"
      [] OTHER -> k

\* The ids a list of configs spawns, in the order of the two nested loops.
RECURSIVE SpawnOrder(_)
SpawnOrder(configs) ==
    IF configs = <<>> THEN <<>>
    ELSE Head(configs).ids \o SpawnOrder(Tail(configs))

\* The type the config list gives trash id.
RECURSIVE TypeOf(_, _)
TypeOf(configs, id) ==
    IF \E k \in 1..Len(Head(configs).ids) : Head(configs).ids[k] = id
    THEN Head(configs).type
    ELSE TypeOf(Tail(configs), id)

\* The message templates, with the values they interpolate.
Msg(text, type, puntos) == [text |-> text, type |-> type, puntos |-> puntos]

NoObject == [type |-> "-", pos |-> <<0, 0>>, parent |-> "unloaded"]

-----------------------------------------------------------------------------
(* The state after construction and ngAfterViewInit: every request sent,   *)
(* none answered.                                                          *)

InitGame ==
    /\ playerLoad = "pending"
    /\ binLoad = [i \in 1..Len(binConfigs) |-> "pending"]
    /\ packLoad = "pending"
    /\ extraLoad = [j \in 1..Len(extraConfigs) |-> "pending"]
    /\ player = FALSE
    /\ playerPos = <<0, 0>>
    /\ playerRot = 0
    /\ walkAction = "none"
    /\ moveForward = 0
    /\ turn = 0
    /\ objects = [id \in TrashIds |-> NoObject]
    /\ trashItems = <<>>
    /\ bins = <<>>
    /\ carryingItem = NULL
    /\ recycledCount = [t \in TrashType |-> 0]
    /\ score = 0
    /\ gameState = "playing"
    /\ showWinMenu = FALSE
    /\ showLoseMenu = FALSE
    /\ hudMessage = Msg("", "-", 0)
    /\ destroyed = FALSE
    /\ afterEnd = "none"

InitQuery ==
    /\ qCands = <<>>
    /\ qOrigin = <<0, 0>>
    /\ qRadius = 0
    /\ qResult = -1

\* ngAfterViewInit has called animate once: it has requested the next frame
\* and returned.
InitLoop ==
    /\ tickPc = "idle"
    /\ frameRequests = 1

\* No deposit has been seen.
InitTally == tally = [correct |-> 0, wrong |-> 0]

Init == InitGame /\ InitQuery /\ InitLoop /\ InitTally

-----------------------------------------------------------------------------
(* Asset loads: each request is answered once, at any time, by its load    *)
(* callback or by its error callback.                                      *)

\* loadPlayerModel's load callback: anims says whether gltf.animations is
\* non-empty.
LoadPlayerOk(anims) ==
    /\ playerLoad = "pending"
    /\ playerLoad' = "done"
    /\ player' = TRUE
    /\ playerPos' = <<0, 0>>
    /\ walkAction' = IF anims THEN "paused" ELSE walkAction
    /\ UNCHANGED <<binLoad, packLoad, extraLoad, playerRot, moveForward, turn,
                   objects, trashItems, bins, carryingItem, recycledCount, score,
                   gameState, showWinMenu, showLoseMenu, hudMessage, destroyed>>

\* A load callback that assigns the list instead of pushing on it.
LoadBinOk_replaces(i) ==
    /\ binLoad[i] = "pending"
    /\ binLoad' = [binLoad EXCEPT ![i] = "done"]
    /\ bins' = << [type |-> binConfigs[i].type, pos |-> binConfigs[i].pos] >>
    /\ UNCHANGED <<playerLoad, packLoad, extraLoad, player, playerPos, playerRot,
                   walkAction, moveForward, turn, objects, trashItems, carryingItem,
                   recycledCount, score, gameState, showWinMenu, showLoseMenu,
                   hudMessage, destroyed>>

\* loadBins' load callback for binConfigs[i].
LoadBinOk(i) ==
    /\ binLoad[i] = "pending"
    /\ binLoad' = [binLoad EXCEPT ![i] = "done"]
    /\ bins' = Append(bins, [type |-> binConfigs[i].type, pos |-> binConfigs[i].pos])
    /\ UNCHANGED <<playerLoad, packLoad, extraLoad, player, playerPos, playerRot,
                   walkAction, moveForward, turn, objects, trashItems, carryingItem,
                   recycledCount, score, gameState, showWinMenu, showLoseMenu,
                   hudMessage, destroyed>>

\* A spawn loop that adds the objects to the scene and forgets the push.
SpawnTrash_unlisted(configs, rnd) ==
    /\ objects' = [id \in TrashIds |->
                     IF id \in DOMAIN rnd
                     THEN [type |-> TypeOf(configs, id), pos |-> rnd[id],
                           parent |-> "scene"]
                     ELSE objects[id]]
    /\ trashItems' = trashItems

\* The body of the spawn loops of loadTrash and loadExtraTrashModels: every
\* id of the configs gets an object of the config's type in the scene, at
\* the random place rnd gives it, and is pushed on trashItems.
SpawnTrash(configs, rnd) ==
    /\ objects' = [id \in TrashIds |->
                     IF id \in DOMAIN rnd
                     THEN [type |-> TypeOf(configs, id), pos |-> rnd[id],
                           parent |-> "scene"]
                     ELSE objects[id]]
    /\ trashItems' = trashItems \o SpawnOrder(configs)

IdSet(configs) == {SpawnOrder(configs)[k] : k \in 1..Len(SpawnOrder(configs))}

\* loadTrash's load callback.
LoadTrashOk ==
    /\ packLoad = "pending"
    /\ packLoad' = "done"
    /\ \E rnd \in [IdSet(trashConfigs) -> RandomSpots] : SpawnTrash(trashConfigs, rnd)
    /\ UNCHANGED <<playerLoad, binLoad, extraLoad, player, playerPos, playerRot,
                   walkAction, moveForward, turn, bins, carryingItem, recycledCount,
                   score, gameState, showWinMenu, showLoseMenu, hudMessage, destroyed>>

\* loadExtraTrashModels' load callback for extraConfigs[j].
LoadExtraOk(j) ==
    /\ extraLoad[j] = "pending"
    /\ extraLoad' = [extraLoad EXCEPT ![j] = "done"]
    /\ \E rnd \in [IdSet(<<extraConfigs[j]>>) -> RandomSpots] :
           SpawnTrash(<<extraConfigs[j]>>, rnd)
    /\ UNCHANGED <<playerLoad, binLoad, packLoad, player, playerPos, playerRot,
                   walkAction, moveForward, turn, bins, carryingItem, recycledCount,
                   score, gameState, showWinMenu, showLoseMenu, hudMessage, destroyed>>

\* An error callback that gives up and tears the component down.
LoadPlayerError_givesUp ==
    /\ playerLoad = "pending"
    /\ playerLoad' = "failed"
    /\ destroyed' = TRUE
    /\ UNCHANGED <<binLoad, packLoad, extraLoad, player, playerPos, playerRot,
                   walkAction, moveForward, turn, objects, trashItems, bins,
                   carryingItem, recycledCount, score, gameState, showWinMenu,
                   showLoseMenu, hudMessage>>

\* The error callbacks: they only log.
LoadPlayerError ==
    /\ playerLoad = "pending"
    /\ playerLoad' = "failed"
    /\ UNCHANGED <<binLoad, packLoad, extraLoad, player, playerPos, playerRot,
                   walkAction, moveForward, turn, objects, trashItems, bins,
                   carryingItem, recycledCount, score, gameState, showWinMenu,
                   showLoseMenu, hudMessage, destroyed>>

LoadBinError(i) ==
    /\ binLoad[i] = "pending"
    /\ binLoad' = [binLoad EXCEPT ![i] = "failed"]
    /\ UNCHANGED <<playerLoad, packLoad, extraLoad, player, playerPos, playerRot,
                   walkAction, moveForward, turn, objects, trashItems, bins,
                   carryingItem, recycledCount, score, gameState, showWinMenu,
                   showLoseMenu, hudMessage, destroyed>>

LoadTrashError ==
    /\ packLoad = "pending"
    /\ packLoad' = "failed"
    /\ UNCHANGED <<playerLoad, binLoad, extraLoad, player, playerPos, playerRot,
                   walkAction, moveForward, turn, objects, trashItems, bins,
                   carryingItem, recycledCount, score, gameState, showWinMenu,
                   showLoseMenu, hudMessage, destroyed>>

LoadExtraError(j) ==
    /\ extraLoad[j] = "pending"
    /\ extraLoad' = [extraLoad EXCEPT ![j] = "failed"]
    /\ UNCHANGED <<playerLoad, binLoad, packLoad, player, playerPos, playerRot,
                   walkAction, moveForward, turn, objects, trashItems, bins,
                   carryingItem, recycledCount, score, gameState, showWinMenu,
                   showLoseMenu, hudMessage, destroyed>>

-----------------------------------------------------------------------------
(* The game logic. *)

\* A test that only stops the handlers once the game is won.
Playing_notWon == gameState # "win"

\* this.gameState === 'playing', the test every handler starts with.
Playing == gameState = "playing"

\* An evaluation that loses only below the lose score.
GameStateFor_strictLose(gs, sc) ==
    IF gs # "playing" THEN gs
    ELSE IF sc >= winScore THEN "win"
    ELSE IF sc < loseScore THEN "lose"
    ELSE "playing"

\* The game state checkGameState leaves for state gs and score sc.
GameStateFor(gs, sc) ==
    IF gs # "playing" THEN gs
    ELSE IF sc >= winScore THEN "win"
    ELSE IF sc <= loseScore THEN "lose"
    ELSE "playing"

\* A checkGameState that ends the game and leaves the player walking.
checkGameState_coasts(sc, msg) ==
    LET gs1 == GameStateFor(gameState, sc)
    IN  /\ gameState' = gs1
        /\ showWinMenu' = IF Playing /\ gs1 = "win" THEN TRUE ELSE showWinMenu
        /\ showLoseMenu' = IF Playing /\ gs1 = "lose" THEN TRUE ELSE showLoseMenu
        /\ hudMessage' = IF Playing /\ gs1 = "win" THEN Msg("excelente", "-", 0)
                         ELSE IF Playing /\ gs1 = "lose" THEN Msg("reciclado mal", "-", 0)
                         ELSE msg
        /\ UNCHANGED <<moveForward, turn, walkAction>>

\* checkGameState, called with this.score = sc and this.hudMessage = msg
\* already assigned by the caller.
checkGameState(sc, msg) ==
    LET gs1 == GameStateFor(gameState, sc)
        ended == Playing /\ gs1 # "playing"
    IN  /\ gameState' = gs1
        /\ showWinMenu' = IF Playing /\ gs1 = "win" THEN TRUE ELSE showWinMenu
        /\ showLoseMenu' = IF Playing /\ gs1 = "lose" THEN TRUE ELSE showLoseMenu
        /\ hudMessage' = IF Playing /\ gs1 = "win" THEN Msg("excelente", "-", 0)
                         ELSE IF Playing /\ gs1 = "lose" THEN Msg("reciclado mal", "-", 0)
                         ELSE msg
        /\ moveForward' = IF ended THEN 0 ELSE moveForward
        /\ turn' = IF ended THEN 0 ELSE turn
        /\ walkAction' = IF ended /\ walkAction # "none" THEN "paused" ELSE walkAction

\* A pickup that forgets to take the item off the floor list.
FloorWithout_kept(list, item) == list

\* this.trashItems.filter(t => t !== nearestTrash)
FloorWithout(list, item) == SelectSeq(list, LAMBDA t : t # item)

\* The object once it is attached to the hand anchor.
InHand(obj) == [obj EXCEPT !.parent = "hand", !.pos = HandOffset]

\* The object once parent.remove has detached it.
Detached(obj) == [obj EXCEPT !.parent = "none"]

\* A wrong deposit that costs two points.
ScoreAfterWrong_double(sc) == sc - 2

\* A correct deposit that earns two points.
ScoreAfterCorrect_double(sc) == sc + 2

\* this.score++ and this.score--
ScoreAfterCorrect(sc) == sc + 1
ScoreAfterWrong(sc) == sc - 1

\* A count that goes up for every type at once.
CountAfterCorrect_all(counts, type) == [t \in TrashType |-> counts[t] + 1]

\* this.recycledCount[type]++
CountAfterCorrect(counts, type) == [counts EXCEPT ![type] = @ + 1]

\* tryInteract, empty-handed, with nearestTrash found: pick it up.
InteractPickup(nearestTrash) ==
    /\ carryingItem' = nearestTrash
    /\ trashItems' = FloorWithout(trashItems, nearestTrash)
    /\ objects' = [objects EXCEPT ![nearestTrash] = InHand(@)]
    /\ hudMessage' = Msg("recogiste", objects[nearestTrash].type, 0)
    /\ UNCHANGED <<playerLoad, binLoad, packLoad, extraLoad, player, playerPos,
                   playerRot, walkAction, moveForward, turn, bins, recycledCount,
                   score, gameState, showWinMenu, showLoseMenu, destroyed>>

\* An interact with nothing near that says nothing.
InteractNothingNear_silent == UNCHANGED gameVars

\* tryInteract, empty-handed, with no trash found.
InteractNothingNear ==
    /\ hudMessage' = Msg("no hay basura", "-", 0)
    /\ UNCHANGED <<playerLoad, binLoad, packLoad, extraLoad, player, playerPos,
                   playerRot, walkAction, moveForward, turn, objects, trashItems, bins,
                   carryingItem, recycledCount, score, gameState, showWinMenu,
                   showLoseMenu, destroyed>>

\* An interact away from the bins that drops the item back on the floor.
InteractNoBin_drops ==
    /\ hudMessage' = Msg("no hay contenedor", "-", 0)
    /\ objects' = [objects EXCEPT ![carryingItem] =
                      [@ EXCEPT !.parent = "scene", !.pos = playerPos]]
    /\ trashItems' = Append(trashItems, carryingItem)
    /\ carryingItem' = NULL
    /\ UNCHANGED <<playerLoad, binLoad, packLoad, extraLoad, player, playerPos,
                   playerRot, walkAction, moveForward, turn, bins, recycledCount,
                   score, gameState, showWinMenu, showLoseMenu, destroyed>>

\* tryInteract, carrying, with no bin found.
InteractNoBin ==
    /\ hudMessage' = Msg("no hay contenedor", "-", 0)
    /\ UNCHANGED <<playerLoad, binLoad, packLoad, extraLoad, player, playerPos,
                   playerRot, walkAction, moveForward, turn, objects, trashItems, bins,
                   carryingItem, recycledCount, score, gameState, showWinMenu,
                   showLoseMenu, destroyed>>

\* A correct deposit that earns its point but is left out of the counts.
InteractCorrect_uncounted(nearestBin) ==
    /\ score' = ScoreAfterCorrect(score)
    /\ objects' = [objects EXCEPT ![carryingItem] = Detached(@)]
    /\ carryingItem' = NULL
    /\ checkGameState(ScoreAfterCorrect(score), Msg("bien", "-", ScoreAfterCorrect(score)))
    /\ UNCHANGED <<playerLoad, binLoad, packLoad, extraLoad, player, playerPos,
                   playerRot, trashItems, bins, recycledCount, destroyed>>

\* tryInteract, carrying, with a bin of the carried type found.
InteractCorrect(nearestBin) ==
    /\ recycledCount' = CountAfterCorrect(recycledCount, bins[nearestBin].type)
    /\ score' = ScoreAfterCorrect(score)
    /\ objects' = [objects EXCEPT ![carryingItem] = Detached(@)]
    /\ carryingItem' = NULL
    /\ checkGameState(ScoreAfterCorrect(score), Msg("bien", "-", ScoreAfterCorrect(score)))
    /\ UNCHANGED <<playerLoad, binLoad, packLoad, extraLoad, player, playerPos,
                   playerRot, trashItems, bins, destroyed>>

\* A wrong deposit that is scored while the item stays in the hand.
InteractWrong_keeps(nearestBin) ==
    /\ score' = ScoreAfterWrong(score)
    /\ checkGameState(ScoreAfterWrong(score), Msg("incorrecto", "-", ScoreAfterWrong(score)))
    /\ UNCHANGED <<playerLoad, binLoad, packLoad, extraLoad, player, playerPos,
                   playerRot, objects, trashItems, bins, carryingItem, recycledCount,
                   destroyed>>

\* A wrong deposit that puts the item back on the floor at the player's feet.
InteractWrong_returns(nearestBin) ==
    /\ score' = ScoreAfterWrong(score)
    /\ objects' = [objects EXCEPT ![carryingItem] =
                      [@ EXCEPT !.parent = "scene", !.pos = playerPos]]
    /\ trashItems' = Append(trashItems, carryingItem)
    /\ carryingItem' = NULL
    /\ checkGameState(ScoreAfterWrong(score), Msg("incorrecto", "-", ScoreAfterWrong(score)))
    /\ UNCHANGED <<playerLoad, binLoad, packLoad, extraLoad, player, playerPos,
                   playerRot, bins, recycledCount, destroyed>>

\* tryInteract, carrying, with a bin of another type found.
InteractWrong(nearestBin) ==
    /\ score' = ScoreAfterWrong(score)
    /\ objects' = [objects EXCEPT ![carryingItem] = Detached(@)]
    /\ carryingItem' = NULL
    /\ checkGameState(ScoreAfterWrong(score), Msg("incorrecto", "-", ScoreAfterWrong(score)))
    /\ UNCHANGED <<playerLoad, binLoad, packLoad, extraLoad, player, playerPos,
                   playerRot, trashItems, bins, recycledCount, destroyed>>

\* A tryInteract that looks for trash first, also with the hands full.
tryInteract_regrab ==
    IF ~player \/ ~Playing
    THEN UNCHANGED gameVars
    ELSE LET nearestTrash == findNearestTrash(playerPos, pickupDistance)
             nearestBin == findNearestBin(playerPos, binDistance)
         IN  IF nearestTrash # NULL
             THEN InteractPickup(nearestTrash)
             ELSE IF carryingItem = NULL
             THEN InteractNothingNear
             ELSE IF nearestBin = 0
             THEN InteractNoBin
             ELSE IF bins[nearestBin].type = objects[carryingItem].type
             THEN InteractCorrect(nearestBin)
             ELSE InteractWrong(nearestBin)

\* tryInteract: pick up the nearest floor trash, or deposit the carried one
\* in the nearest bin.
tryInteract ==
    IF ~player \/ ~Playing
    THEN UNCHANGED gameVars
    ELSE IF carryingItem = NULL
    THEN LET nearestTrash == findNearestTrash(playerPos, pickupDistance)
         IN  IF nearestTrash # NULL
             THEN InteractPickup(nearestTrash)
             ELSE InteractNothingNear
    ELSE LET nearestBin == findNearestBin(playerPos, binDistance)
         IN  IF nearestBin = 0
             THEN InteractNoBin
             ELSE IF bins[nearestBin].type = objects[carryingItem].type
             THEN InteractCorrect(nearestBin)
             ELSE InteractWrong(nearestBin)

\* The intents after a key goes down or up.
SetForward(v) ==
    /\ moveForward' = v
    /\ UNCHANGED <<playerLoad, binLoad, packLoad, extraLoad, player, playerPos,
                   playerRot, walkAction, turn, objects, trashItems, bins, carryingItem,
                   recycledCount, score, gameState, showWinMenu, showLoseMenu,
                   hudMessage, destroyed>>

SetTurn(v) ==
    /\ turn' = v
    /\ UNCHANGED <<playerLoad, binLoad, packLoad, extraLoad, player, playerPos,
                   playerRot, walkAction, moveForward, objects, trashItems, bins,
                   carryingItem, recycledCount, score, gameState, showWinMenu,
                   showLoseMenu, hudMessage, destroyed>>

\* onKeyDown for a key event with e.key = k.
onKeyDown(k) ==
    LET key == toLowerCase(k)
    IN  IF ~Playing THEN UNCHANGED gameVars
        ELSE IF key \in {"w", "arrowup"} THEN SetForward(1)
        ELSE IF key \in {"s", "arrowdown"} THEN SetForward(-1)
        ELSE IF key \in {"a", "arrowleft"} THEN SetTurn(1)
        ELSE IF key \in {"d", "arrowright"} THEN SetTurn(-1)
        ELSE IF key = "e" THEN tryInteract
        ELSE UNCHANGED gameVars

\* onKeyUp for a key event with e.key = k.
onKeyUp(k) ==
    LET key == toLowerCase(k)
    IN  IF ~Playing THEN UNCHANGED gameVars
        ELSE IF key \in {"w", "arrowup", "s", "arrowdown"} THEN SetForward(0)
        ELSE IF key \in {"a", "arrowleft", "d", "arrowright"} THEN SetTurn(0)
        ELSE UNCHANGED gameVars

-----------------------------------------------------------------------------
(* The frame loop. *)

\* rotationSpeed * delta, in quarter turns, and speed * delta, in world
\* units, for a frame of delta quanta.
QuarterTurns(delta) == 3 * delta
Displacement(delta) == 189 * delta

\* new Vector3(0, 0, 1).applyAxisAngle(new Vector3(0, 1, 0), rotation.y)
Forward(rot) ==
    CASE rot = 0 -> <<0, 1>>
      [] rot = 1 -> <<1, 0>>
      [] rot = 2 -> <<0, -1>>
      [] rot = 3 -> <<-1, 0>>

\* The part of the ground the model lets the player walk on: between the
\* origin and the row of the bins, and no further to the side than the
\* outer bins can be reached from.
InWorld(pos) ==
    /\ pos[1] >= binConfigs[1].pos[1] - binDistance
    /\ pos[1] <= binConfigs[3].pos[1] + binDistance
    /\ pos[2] >= 0
    /\ pos[2] <= binConfigs[1].pos[2]

\* A test that forgets the turn intent.
isMoving_forwardOnly == moveForward # 0

\* Math.abs(this.moveForward) > 0.001 || Math.abs(this.turn) > 0.001
isMoving == moveForward # 0 \/ turn # 0

\* A frame that walks the player on whatever the forward intent is.
animate_drifts(delta) ==
    IF player /\ Playing
    THEN LET rot1 == (playerRot - turn * QuarterTurns(delta)) % 4
             step == Displacement(delta)
             pos1 == <<playerPos[1] + Forward(rot1)[1] * step,
                       playerPos[2] + Forward(rot1)[2] * step>>
         IN  /\ InWorld(pos1)
             /\ playerRot' = rot1
             /\ playerPos' = pos1
             /\ walkAction' = IF walkAction = "none" THEN "none"
                              ELSE IF isMoving THEN "running" ELSE "paused"
             /\ UNCHANGED <<playerLoad, binLoad, packLoad, extraLoad, player,
                            moveForward, turn, objects, trashItems, bins, carryingItem,
                            recycledCount, score, gameState, showWinMenu, showLoseMenu,
                            hudMessage, destroyed>>
    ELSE UNCHANGED gameVars

\* One run of animate, delta quanta after the last one.
animate(delta) ==
    IF player /\ Playing
    THEN LET rot1 == (playerRot - turn * QuarterTurns(delta)) % 4
             step == moveForward * Displacement(delta)
             pos1 == <<playerPos[1] + Forward(rot1)[1] * step,
                       playerPos[2] + Forward(rot1)[2] * step>>
         IN  /\ InWorld(pos1)
             /\ playerRot' = rot1
             /\ playerPos' = pos1
             /\ walkAction' = IF walkAction = "none" THEN "none"
                              ELSE IF isMoving THEN "running" ELSE "paused"
             /\ UNCHANGED <<playerLoad, binLoad, packLoad, extraLoad, player,
                            moveForward, turn, objects, trashItems, bins, carryingItem,
                            recycledCount, score, gameState, showWinMenu, showLoseMenu,
                            hudMessage, destroyed>>
    ELSE UNCHANGED gameVars

\* ngOnDestroy: the frame request is cancelled and the key listeners removed.
ngOnDestroy ==
    /\ ~destroyed
    /\ destroyed' = TRUE
    /\ UNCHANGED <<playerLoad, binLoad, packLoad, extraLoad, player, playerPos,
                   playerRot, walkAction, moveForward, turn, objects, trashItems, bins,
                   carryingItem, recycledCount, score, gameState, showWinMenu,
                   showLoseMenu, hudMessage>>

-----------------------------------------------------------------------------
(* The events of a mounted component.  The observer afterEnd notes the     *)
(* events that arrive once the game is over.                               *)

Observe(event) ==
    afterEnd' = IF gameState \in {"win", "lose"} THEN event ELSE afterEnd

\* No call of animate is under way: the browser runs one callback at a time,
\* each to its end.
Idle == tickPc = "idle"

\* A second request made by mistake in the same frame.
RequestFrame_twice(n) == n + 2

\* requestAnimationFrame(this.animate) and cancelAnimationFrame(this.animationId),
\* on the number of requests not yet served.
RequestFrame(n) == n + 1
CancelFrame(n) == IF n > 0 THEN n - 1 ELSE 0

\* The observer tally notes each deposit as an onlooker sees it: an item
\* leaves the hand, and the deposit is correct when the bin nearest to the
\* player, strictly within binDistance, is of the item's type.
ObserveDeposit ==
    tally' =
        IF carryingItem # NULL /\ carryingItem' = NULL
        THEN IF \E k \in 1..Len(bins) :
                    /\ Dist2(bins[k].pos, playerPos) < binDistance * binDistance
                    /\ \A j \in 1..Len(bins) :
                          Dist2(bins[j].pos, playerPos) >= Dist2(bins[k].pos, playerPos)
                    /\ bins[k].type = objects[carryingItem].type
             THEN [tally EXCEPT !.correct = @ + 1]
             ELSE [tally EXCEPT !.wrong = @ + 1]
        ELSE tally

KeyDownOf(k) ==
    /\ ~destroyed /\ Idle
    /\ onKeyDown(k) /\ Observe("keydown") /\ ObserveDeposit
    /\ UNCHANGED <<queryVars, loopVars>>

KeyUpOf(k) ==
    /\ ~destroyed /\ Idle
    /\ onKeyUp(k) /\ Observe("keyup") /\ UNCHANGED <<queryVars, loopVars, tally>>

\* A whole frame: the browser serves a request and animate runs from its
\* first statement, which requests the next frame, to its end.
Frame(delta) ==
    /\ Idle /\ frameRequests > 0
    /\ frameRequests' = RequestFrame(frameRequests - 1)
    /\ animate(delta) /\ Observe("frame") /\ UNCHANGED <<tickPc, queryVars, tally>>

KeyDown == \E k \in Keys : KeyDownOf(k)
KeyUp == \E k \in Keys : KeyUpOf(k)
Tick == \E delta \in 0..MaxDelta : Frame(delta)
PlayerLoaded ==
    \E anims \in BOOLEAN :
        Idle /\ LoadPlayerOk(anims) /\ UNCHANGED <<afterEnd, queryVars, loopVars, tally>>
BinLoaded ==
    \E i \in 1..Len(binConfigs) :
        Idle /\ LoadBinOk(i) /\ UNCHANGED <<afterEnd, queryVars, loopVars, tally>>
TrashLoaded ==
    Idle /\ LoadTrashOk /\ UNCHANGED <<afterEnd, queryVars, loopVars, tally>>
ExtraLoaded ==
    \E j \in 1..Len(extraConfigs) :
        Idle /\ LoadExtraOk(j) /\ UNCHANGED <<afterEnd, queryVars, loopVars, tally>>

Next ==
    \/ KeyDown
    \/ KeyUp
    \/ Tick
    \/ PlayerLoaded
    \/ BinLoaded
    \/ TrashLoaded
    \/ ExtraLoaded

Spec == Init /\ [][Next]_vars

-----------------------------------------------------------------------------
(* The nearest query on its own: the inputs are drawn at the start and the *)
(* query is called once.                                                   *)

QueryPoints == { <<0, 0>>, <<3, 4>>, <<5, 0>>, <<0, 6>>, <<6, 8>> }
QueryOrigins == { <<0, 0>>, <<3, 0>> }
QueryRadii == { 0, 5, 6, 11 }

RECURSIVE SeqsUpTo(_, _)
SeqsUpTo(S, n) ==
    IF n = 0 THEN { <<>> }
    ELSE SeqsUpTo(S, n - 1) \cup { Append(q, x) : q \in SeqsUpTo(S, n - 1), x \in S }

InitNearest ==
    /\ InitGame
    /\ InitLoop
    /\ InitTally
    /\ qCands \in SeqsUpTo(QueryPoints, MaxCands)
    /\ qOrigin \in QueryOrigins
    /\ qRadius \in QueryRadii
    /\ qResult = -1

CallNearest ==
    /\ qResult = -1
    /\ qResult' = NearestIndex(qCands, qOrigin, qRadius)
    /\ UNCHANGED <<gameVars, afterEnd, qCands, qOrigin, qRadius, loopVars, tally>>

NearestSpec == InitNearest /\ [][CallNearest]_vars

-----------------------------------------------------------------------------
(* Helpers of the properties. *)

\* The ids on the floor list.
FloorSet == { trashItems[k] : k \in 1..Len(trashItems) }

\* No id appears twice on the floor list.
FloorNoDuplicates ==
    \A k1, k2 \in 1..Len(trashItems) : trashItems[k1] = trashItems[k2] => k1 = k2

\* The trash ids an asset load has spawned so far.
Spawned == { id \in TrashIds : objects[id].parent # "unloaded" }

-----------------------------------------------------------------------------
(* C1.  In every reachable state the carry slot is empty or holds one      *)
(* trash item that is not on the floor list, and no item is on the floor   *)
(* list twice.                                                             *)
C1_CarryNotOnFloor ==
    /\ carryingItem = NULL \/ (carryingItem \in TrashIds /\ carryingItem \notin FloorSet)
    /\ FloorNoDuplicates

\* An item is carried while others lie on the floor.
C1_Witness == carryingItem # NULL /\ Len(trashItems) >= 2

-----------------------------------------------------------------------------
(* C2, as stated.  Every trash item an asset load has spawned is on the    *)
(* floor list or is the carried item.                                      *)
C2_Original ==
    \A id \in Spawned : id \in FloorSet \/ id = carryingItem

\* The trash ids a deposit has detached from the hand and discarded.
Deposited == { id \in TrashIds : objects[id].parent = "none" }

(* C2, amended.  Every spawned trash item is in exactly one of three       *)
(* places: on the floor list (and in the scene), in the carry slot (and in *)
(* the hand), or deposited (detached and discarded); an item no load has   *)
(* spawned is in none of them.                                             *)
C2_SpawnedAccounted ==
    /\ \A id \in TrashIds :
          /\ id \in FloorSet <=> objects[id].parent = "scene"
          /\ id = carryingItem <=> objects[id].parent = "hand"
    /\ \A id \in Spawned : id \in FloorSet \/ id = carryingItem \/ id \in Deposited

\* One item deposited, one carried, and one on the floor.
C2_Witness == Deposited # {} /\ carryingItem # NULL /\ trashItems # <<>>

-----------------------------------------------------------------------------
\* Some bin is strictly within binDistance of the player.
BinWithinReach ==
    \E k \in 1..Len(bins) : Dist2(bins[k].pos, playerPos) < binDistance * binDistance

\* The step is a deposit: an interact, while playing and carrying with a bin
\* in reach, that empties the carry slot.
DepositStep ==
    /\ player /\ gameState = "playing"
    /\ carryingItem # NULL /\ BinWithinReach
    /\ carryingItem' = NULL

(* C3.  In every step the score stays or changes by exactly one; it        *)
(* changes only in a deposit step, and every step that empties the carry   *)
(* slot changes it.                                                        *)
C3_ScoreSteps ==
    [][ /\ score' \in {score - 1, score, score + 1}
        /\ score' # score => DepositStep
        /\ (carryingItem # NULL /\ carryingItem' = NULL) => score' # score ]_vars

\* A deposit has just set the score the message shows.
C3_Witness ==
    /\ hudMessage.text \in {"bien", "incorrecto"}
    /\ hudMessage.puntos = score /\ score # 0

-----------------------------------------------------------------------------
(* C4.  Once the game state is win or lose, no step changes the game       *)
(* state, the score, the carry slot, or the player's position and          *)
(* orientation.                                                            *)
C4_TerminalFrozen ==
    [][ (gameState = "win" \/ gameState = "lose") =>
            UNCHANGED <<gameState, score, carryingItem, playerPos, playerRot>> ]_vars

\* The game is lost and a frame has run since.
C4_Witness == gameState = "lose" /\ afterEnd = "frame"

-----------------------------------------------------------------------------
\* The game state the thresholds give a score.
StateOfScore(sc) ==
    IF sc >= 5 THEN "win" ELSE IF sc <= -2 THEN "lose" ELSE "playing"

\* The number of correct deposits so far.
CorrectDeposits ==
    recycledCount["organico"] + recycledCount["reciclable"] + recycledCount["general"]

(* C5.  Every step that empties the carry slot (a deposit) leaves the game *)
(* state the thresholds give the new score: win from 5 up, lose from -2    *)
(* down, playing in between; so the game is won whenever the score is 5    *)
(* and lost whenever it is -2.                                             *)
C5_EvaluatedAfterDeposit ==
    /\ [][ (carryingItem # NULL /\ carryingItem' = NULL) =>
               gameState' = StateOfScore(score') ]_vars
    /\ [](score >= 5 => gameState = "win")
    /\ [](score <= -2 => gameState = "lose")

\* Five correct deposits and no wrong one: the game is won with score 5.
C5_Witness == CorrectDeposits = 5 /\ score = 5 /\ gameState = "win"

-----------------------------------------------------------------------------
\* The step is an interact: the key event of the E key, handled whole.
InteractStep == KeyDownOf("e") \/ KeyDownOf("E")

\* An item is carried and no bin is strictly within binDistance.
CarryingAwayFromBins == carryingItem # NULL /\ ~BinWithinReach

(* C6.  An interact while an item is carried and no bin is strictly within *)
(* binDistance of the player leaves the carry slot, the score, the counts, *)
(* the floor list and the game state as they were, and leaves the player   *)
(* carrying away from the bins, so that the next interact does the same.   *)
C6_NoBinNoChange ==
    [][ (CarryingAwayFromBins /\ InteractStep) =>
            /\ UNCHANGED <<carryingItem, score, recycledCount, trashItems, gameState>>
            /\ CarryingAwayFromBins' ]_vars

\* An interact has found no bin while all three bins stand and an item is
\* carried.
C6_Witness ==
    /\ carryingItem # NULL /\ ~BinWithinReach /\ Len(bins) = Len(binConfigs)
    /\ hudMessage.text = "no hay contenedor"

-----------------------------------------------------------------------------
\* No floor trash is strictly within pickupDistance of the player.
NoTrashWithinPickup ==
    \A k \in 1..Len(trashItems) :
        Dist2(TrashWorldPos(trashItems[k]), playerPos) >= pickupDistance * pickupDistance

\* The interact has picked nothing up and said so.
NothingPickedUp ==
    /\ carryingItem' = NULL
    /\ trashItems' = trashItems
    /\ hudMessage'.text = "no hay basura"

(* C7, as stated.  In every playing state with an empty carry slot and no  *)
(* floor trash within pickupDistance, whatever has been loaded, every      *)
(* interact leaves the carry slot empty and the floor list as it was and   *)
(* sets the message to "no hay basura".                                    *)
C7_Original ==
    (gameState = "playing" /\ carryingItem = NULL /\ NoTrashWithinPickup) =>
        ~ ENABLED (InteractStep /\ ~NothingPickedUp)

(* C7, amended.  In every playing state with the player model loaded, an   *)
(* empty carry slot and no floor trash within pickupDistance, whatever     *)
(* trash and bins have been loaded, every interact leaves the carry slot   *)
(* empty and the floor list as it was and sets the message to "no hay      *)
(* basura"; before the player model is loaded an interact changes nothing, *)
(* the message included.                                                   *)
C7_NothingNear ==
    /\ (player /\ gameState = "playing" /\ carryingItem = NULL /\ NoTrashWithinPickup) =>
           ~ ENABLED (InteractStep /\ ~NothingPickedUp)
    /\ (~player /\ gameState = "playing") =>
           ~ ENABLED (InteractStep /\ ~(UNCHANGED gameVars))

\* An interact has found nothing near while trash lies on the floor out of
\* reach and not every bin is loaded.
C7_Witness ==
    /\ player /\ carryingItem = NULL /\ trashItems # <<>> /\ NoTrashWithinPickup
    /\ Len(bins) < Len(binConfigs)
    /\ hudMessage.text = "no hay basura"

-----------------------------------------------------------------------------
\* Bin k is strictly within binDistance of the player and no bin is nearer.
NearestBinInReach(k) ==
    /\ Dist2(bins[k].pos, playerPos) < binDistance * binDistance
    /\ \A j \in 1..Len(bins) : Dist2(bins[j].pos, playerPos) >= Dist2(bins[k].pos, playerPos)

\* The player carries an item while playing, and every nearest bin in reach
\* (there is one) is of another type than the item, or of the item's type.
AtWrongBin ==
    /\ player /\ gameState = "playing" /\ carryingItem # NULL /\ BinWithinReach
    /\ \A k \in 1..Len(bins) :
          NearestBinInReach(k) => bins[k].type # objects[carryingItem].type

AtMatchingBin ==
    /\ player /\ gameState = "playing" /\ carryingItem # NULL /\ BinWithinReach
    /\ \A k \in 1..Len(bins) :
          NearestBinInReach(k) => bins[k].type = objects[carryingItem].type

\* The carried item is discarded by the step: the slot is empty, the item is
\* detached and is not on the floor list.
CarriedDiscarded ==
    /\ carryingItem' = NULL
    /\ objects'[carryingItem].parent = "none"
    /\ \A k \in 1..Len(trashItems') : trashItems'[k] # carryingItem

(* C8.  An interact at a bin of another type than the carried item's takes *)
(* one point off the score, leaves every count as it was, empties the      *)
(* carry slot and discards the item; a discarded item stays discarded in   *)
(* every later step: never again on the floor list nor in the carry slot.  *)
C8_WrongDeposit ==
    /\ [][ (AtWrongBin /\ InteractStep) =>
               /\ score' = score - 1
               /\ recycledCount' = recycledCount
               /\ CarriedDiscarded ]_vars
    /\ [][ \A id \in TrashIds :
               objects[id].parent = "none" =>
                   /\ objects'[id].parent = "none"
                   /\ carryingItem' # id
                   /\ \A k \in 1..Len(trashItems') : trashItems'[k] # id ]_vars

\* After a wrong deposit the player has picked up another item: the first
\* one is gone while others are carried and on the floor.
C8_Witness ==
    /\ score = -1 /\ CorrectDeposits = 0 /\ Cardinality(Deposited) = 1
    /\ carryingItem # NULL /\ trashItems # <<>>

-----------------------------------------------------------------------------
(* C9.  An interact at a bin of the carried item's type adds one point to  *)
(* the score, adds one to the count of that type and nothing to the other  *)
(* counts, empties the carry slot and discards the item; the counts change *)
(* in no other step, and no count is ever negative.                        *)
C9_CorrectDeposit ==
    /\ [][ (AtMatchingBin /\ InteractStep) =>
               /\ score' = score + 1
               /\ \A t \in TrashType :
                     recycledCount'[t] = recycledCount[t] +
                         (IF t = objects[carryingItem].type THEN 1 ELSE 0)
               /\ CarriedDiscarded ]_vars
    /\ [][ recycledCount' # recycledCount => (AtMatchingBin /\ carryingItem' = NULL) ]_vars
    /\ [](\A t \in TrashType : recycledCount[t] >= 0)

\* A general item has been deposited in the general bin, and nothing else.
C9_Witness ==
    /\ recycledCount = [t \in TrashType |-> IF t = "general" THEN 1 ELSE 0]
    /\ score = 1 /\ carryingItem = NULL /\ hudMessage.text = "bien"

-----------------------------------------------------------------------------
\* Candidate k of the query is strictly within the radius of the origin.
InRadius(k) == Dist2(qCands[k], qOrigin) < qRadius * qRadius

(* C10.  Once the nearest query has been called on a candidate list, an    *)
(* origin and a radius: a candidate it returns is strictly within the      *)
(* radius and no candidate within the radius is nearer; it returns none    *)
(* exactly when no candidate is strictly within the radius (the list is    *)
(* empty or every candidate is at the radius or beyond).                   *)
C10_NearestCorrect ==
    qResult # -1 =>
        /\ qResult \in 0..Len(qCands)
        /\ qResult # 0 =>
              /\ InRadius(qResult)
              /\ \A j \in 1..Len(qCands) :
                    InRadius(j) => Dist2(qCands[j], qOrigin) >= Dist2(qCands[qResult], qOrigin)
        /\ qResult = 0 <=> (\A k \in 1..Len(qCands) : ~InRadius(k))

\* The query has passed over a candidate at exactly the radius and returned
\* a later, nearer one.
C10_Witness ==
    /\ qResult > 1
    /\ Dist2(qCands[1], qOrigin) = qRadius * qRadius
    /\ qRadius > 0

-----------------------------------------------------------------------------
(* The life of a component that is torn down: the player only walks        *)
(* forward and interacts, and ngOnDestroy may run between any two events.  *)
(* The loader's callbacks are not cancelled by ngOnDestroy.                *)

WalkKeys == {"w", "e"}

WalkKeyDown == \E k \in WalkKeys : KeyDownOf(k)
WalkKeyUp == \E k \in WalkKeys : KeyUpOf(k)
Teardown ==
    /\ Idle /\ ngOnDestroy
    /\ frameRequests' = CancelFrame(frameRequests)
    /\ UNCHANGED <<tickPc, afterEnd, queryVars, tally>>

TeardownNext ==
    \/ WalkKeyDown
    \/ WalkKeyUp
    \/ Tick
    \/ PlayerLoaded
    \/ BinLoaded
    \/ TrashLoaded
    \/ ExtraLoaded
    \/ Teardown

TeardownSpec == Init /\ [][TeardownNext]_vars

(* C11.  Once ngOnDestroy has run, no step changes the floor list, the     *)
(* bins, the carry slot, the score, the game state or the intents: no      *)
(* frame runs, no key event is handled, and a load that completes is       *)
(* ignored.                                                                *)
C11_Original ==
    [][ destroyed =>
            UNCHANGED <<trashItems, bins, carryingItem, score, gameState,
                        moveForward, turn>> ]_vars

-----------------------------------------------------------------------------
\* The player stands still: no intent is set and the walk animation, if the
\* model has one, is paused.
Halted(mf, tn, wa) == mf = 0 /\ tn = 0 /\ wa \in {"none", "paused"}

(* C12.  The step that ends the game sets both intents to 0, pauses the    *)
(* walk animation and raises the flag of the new state (showWinMenu for    *)
(* win, showLoseMenu for lose); in every state after it, whatever key      *)
(* events and frames arrive, both intents are 0 and the walk animation is  *)
(* paused.                                                                 *)
C12_HaltedAtEnd ==
    /\ [][ (gameState = "playing" /\ gameState' # "playing") =>
               /\ Halted(moveForward', turn', walkAction')
               /\ gameState' = "win" => showWinMenu'
               /\ gameState' = "lose" => showLoseMenu' ]_vars
    /\ [](gameState # "playing" => Halted(moveForward, turn, walkAction))

\* The game is lost, the player model has a walk animation, and a key has
\* been released since.
C12_Witness ==
    /\ gameState = "lose" /\ showLoseMenu /\ afterEnd = "keyup"
    /\ walkAction = "paused"

-----------------------------------------------------------------------------
\* The step is a successful pickup: an interact, while playing and
\* empty-handed, that puts a floor item from within pickupDistance in the
\* carry slot.
PickupStep ==
    /\ player /\ gameState = "playing" /\ carryingItem = NULL
    /\ InteractStep
    /\ carryingItem' \in FloorSet
    /\ Dist2(TrashWorldPos(carryingItem'), playerPos) < pickupDistance * pickupDistance

(* C13.  The carry slot goes from empty to full only in a successful       *)
(* pickup and from full to empty only in a deposit (an interact, while     *)
(* playing, with a bin in reach); no other step changes it, and a carried  *)
(* item is never replaced by another.                                      *)
C13_CarrySteps ==
    [][ /\ (carryingItem = NULL /\ carryingItem' # NULL) => PickupStep
        /\ (carryingItem # NULL /\ carryingItem' = NULL) => (DepositStep /\ InteractStep)
        /\ (carryingItem # NULL /\ carryingItem' # NULL) => carryingItem' = carryingItem ]_vars

\* A third item is carried after two deposits.
C13_Witness == carryingItem # NULL /\ Cardinality(Deposited) = 2

-----------------------------------------------------------------------------
(* The pickup on its own: every asset is loaded, the player stands at the  *)
(* origin where the model is placed, the trash lies at places drawn at the *)
(* start, in one of the two orders the two trash loads can complete in,    *)
(* and the player interacts.                                               *)

\* Places at 10, 30, 40 (the pickup distance itself) and over 42 units from
\* the origin.
PickupSpots == { <<0, 10>>, <<0, 30>>, <<40, 0>>, <<30, 30>> }

AllConfigs == trashConfigs \o extraConfigs

InitPickup ==
    /\ playerLoad = "done"
    /\ binLoad = [i \in 1..Len(binConfigs) |-> "done"]
    /\ packLoad = "done"
    /\ extraLoad = [j \in 1..Len(extraConfigs) |-> "done"]
    /\ player = TRUE
    /\ playerPos = <<0, 0>>
    /\ playerRot = 0
    /\ walkAction = "paused"
    /\ moveForward = 0
    /\ turn = 0
    /\ \E rnd \in [TrashIds -> PickupSpots] :
          objects = [id \in TrashIds |->
                       [type |-> TypeOf(AllConfigs, id), pos |-> rnd[id], parent |-> "scene"]]
    /\ trashItems \in { SpawnOrder(trashConfigs) \o SpawnOrder(extraConfigs),
                        SpawnOrder(extraConfigs) \o SpawnOrder(trashConfigs) }
    /\ bins = [i \in 1..Len(binConfigs) |->
                 [type |-> binConfigs[i].type, pos |-> binConfigs[i].pos]]
    /\ carryingItem = NULL
    /\ recycledCount = [t \in TrashType |-> 0]
    /\ score = 0
    /\ gameState = "playing"
    /\ showWinMenu = FALSE
    /\ showLoseMenu = FALSE
    /\ hudMessage = Msg("", "-", 0)
    /\ destroyed = FALSE
    /\ afterEnd = "none"
    /\ InitQuery
    /\ InitLoop
    /\ InitTally

Interact == \E k \in {"e", "E"} : KeyDownOf(k)

PickupSpec == InitPickup /\ [][Interact]_vars

\* Floor item id is strictly within pickupDistance of the player.
WithinPickup(id) ==
    Dist2(TrashWorldPos(id), playerPos) < pickupDistance * pickupDistance

(* C14.  An interact while playing and empty-handed, with a floor item     *)
(* strictly within pickupDistance, puts in the carry slot a floor item     *)
(* within that distance that no floor item is nearer than, takes that item *)
(* and no other off the floor list, and leaves the score, the counts, the  *)
(* bins and the game state as they were.                                   *)
C14_PickupNearest ==
    [][ ( /\ player /\ gameState = "playing" /\ carryingItem = NULL
          /\ \E id \in FloorSet : WithinPickup(id)
          /\ InteractStep ) =>
            /\ carryingItem' \in FloorSet
            /\ WithinPickup(carryingItem')
            /\ \A id \in FloorSet :
                  Dist2(TrashWorldPos(id), playerPos) >=
                      Dist2(TrashWorldPos(carryingItem'), playerPos)
            /\ Len(trashItems') = Len(trashItems) - 1
            /\ \A id \in FloorSet :
                  id # carryingItem' => \E k \in 1..Len(trashItems') : trashItems'[k] = id
            /\ \A k \in 1..Len(trashItems') : trashItems'[k] # carryingItem'
            /\ UNCHANGED <<score, recycledCount, bins, gameState>> ]_vars

\* An item is carried while the first item the loads spawned, which lies
\* within pickupDistance, is still on the floor: the query has passed it
\* over for a nearer one.
C14_Witness ==
    /\ carryingItem # NULL
    /\ trashItems[1] = Head(SpawnOrder(trashConfigs))
    /\ WithinPickup(trashItems[1])
    /\ hudMessage.text = "recogiste"

-----------------------------------------------------------------------------
\* The step is a frame: one run of animate.
TickStep == \E delta \in 0..MaxDelta : Frame(delta)

\* What a frame leaves as it was.
TickKeeps ==
    /\ UNCHANGED <<score, gameState, carryingItem, trashItems, bins,
                   recycledCount, moveForward, turn>>
    /\ (gameState = "playing" /\ moveForward = 0) => playerPos' = playerPos
    /\ (gameState = "playing" /\ turn = 0) => playerRot' = playerRot

(* C15.  A frame never changes the score, the game state, the carry slot,  *)
(* the floor list, the bins, the counts or the two intents, and the game   *)
(* state changes only in a deposit step; while playing, a frame with the   *)
(* forward intent 0 leaves the player's position as it was, and a frame    *)
(* with the turn intent 0 leaves the player's orientation as it was.       *)
C15_TickFrame ==
    /\ [](~ ENABLED (TickStep /\ ~TickKeeps))
    /\ [][ gameState' # gameState => DepositStep ]_vars

\* The player has walked away from the origin and turned, and a frame has
\* run since both keys were released.
C15_Witness ==
    /\ gameState = "playing" /\ playerPos # <<0, 0>> /\ playerRot # 0
    /\ moveForward = 0 /\ turn = 0 /\ walkAction = "paused"

-----------------------------------------------------------------------------
(* The two queries called on a loaded registry: the trash lies as in       *)
(* PickupSpec, the player interacts, and between the interacts the queries *)
(* are called from the origin or from the middle bin, with either radius.  *)

CallOrigins == { <<0, 0>>, binConfigs[2].pos }
CallRadii == { pickupDistance, binDistance }

\* A query that takes the item it returns off the floor list.
CallFindNearestTrash_takes ==
    \E o \in CallOrigins, r \in CallRadii :
        /\ qCands' = [k \in 1..Len(trashItems) |-> TrashWorldPos(trashItems[k])]
        /\ qOrigin' = o
        /\ qRadius' = r
        /\ qResult' = findNearestTrash(o, r)
        /\ trashItems' = FloorWithout(trashItems, findNearestTrash(o, r))
        /\ UNCHANGED <<playerLoad, binLoad, packLoad, extraLoad, player, playerPos,
                       playerRot, walkAction, moveForward, turn, objects, bins,
                       carryingItem, recycledCount, score, gameState, showWinMenu,
                       showLoseMenu, hudMessage, destroyed, afterEnd, loopVars, tally>>

\* A call of findNearestTrash: the candidates, the origin, the radius and the
\* item returned are noted, and no field of the component is assigned.
CallFindNearestTrash ==
    \E o \in CallOrigins, r \in CallRadii :
        /\ qCands' = [k \in 1..Len(trashItems) |-> TrashWorldPos(trashItems[k])]
        /\ qOrigin' = o
        /\ qRadius' = r
        /\ qResult' = findNearestTrash(o, r)
        /\ UNCHANGED <<gameVars, afterEnd, loopVars, tally>>

\* A call of findNearestBin, likewise.
CallFindNearestBin ==
    \E o \in CallOrigins, r \in CallRadii :
        /\ qCands' = [k \in 1..Len(bins) |-> bins[k].pos]
        /\ qOrigin' = o
        /\ qRadius' = r
        /\ qResult' = findNearestBin(o, r)
        /\ UNCHANGED <<gameVars, afterEnd, loopVars, tally>>

QueryNext ==
    \/ Interact
    \/ CallFindNearestTrash
    \/ CallFindNearestBin

QuerySpec == InitPickup /\ [][QueryNext]_vars

-----------------------------------------------------------------------------
\* After the frame the walk animation runs exactly when an intent is set.
WalkFollowsIntents ==
    /\ walkAction' \in {"running", "paused"}
    /\ walkAction' = "running" <=> (moveForward' # 0 \/ turn' # 0)

(* C17.  In every state where the game is playing and the player model and *)
(* its walk animation are loaded, every frame ends with the walk animation *)
(* running if the forward intent or the turn intent is not 0, and paused   *)
(* otherwise.                                                              *)
C17_WalkAnimation ==
    []( (player /\ gameState = "playing" /\ walkAction # "none") =>
            ~ ENABLED (TickStep /\ ~WalkFollowsIntents) )

\* A frame has set the walk animation running for a player who turns on the
\* spot.
C17_Witness ==
    /\ gameState = "playing" /\ walkAction = "running"
    /\ moveForward = 0 /\ turn # 0

-----------------------------------------------------------------------------
(* The frame loop statement by statement: a frame begins when the browser  *)
(* serves a request and animate runs its first statement, the request of   *)
(* the next frame; the rest of animate follows.  In between, no other      *)
(* callback starts.  The player only walks forward and interacts.          *)

\* The browser calls animate, and animate requests the next frame.
TickBegin ==
    /\ Idle /\ frameRequests > 0
    /\ tickPc' = "running"
    /\ frameRequests' = RequestFrame(frameRequests - 1)
    /\ UNCHANGED <<gameVars, afterEnd, queryVars, tally>>

\* The rest of animate, to its return.
TickEnd ==
    \E delta \in 0..MaxDelta :
        /\ tickPc = "running"
        /\ tickPc' = "idle"
        /\ animate(delta) /\ Observe("frame")
        /\ UNCHANGED <<frameRequests, queryVars, tally>>

TickNext ==
    \/ WalkKeyDown
    \/ WalkKeyUp
    \/ TickBegin
    \/ TickEnd
    \/ PlayerLoaded
    \/ BinLoaded
    \/ TrashLoaded
    \/ ExtraLoaded

TickSpec == Init /\ [][TickNext]_vars

(* C18, as stated.  A frame requests the next frame only after it has done *)
(* its own work: while a call of animate is under way no request for a     *)
(* frame is outstanding.                                                   *)
C18_Original == tickPc = "running" => frameRequests = 0

\* A step changes what the key handlers and the load callbacks assign.
HandlerEffect ==
    \/ moveForward' # moveForward \/ turn' # turn
    \/ carryingItem' # carryingItem \/ score' # score \/ hudMessage' # hudMessage
    \/ trashItems' # trashItems \/ bins' # bins \/ player' # player

(* C18, amended.  A frame requests the next frame as its first statement,  *)
(* before its own work; still at most one request for a frame is           *)
(* outstanding at any time (exactly one while a frame is under way), a     *)
(* frame begins only when no frame is under way, and the key handlers and  *)
(* load callbacks take effect only between frames.                         *)
C18_OneTick ==
    /\ [](frameRequests <= 1 /\ (tickPc = "running" => frameRequests = 1))
    /\ [][ tickPc' = "running" /\ tickPc' # tickPc => tickPc = "idle" ]_vars
    /\ [][ HandlerEffect => (tickPc = "idle" /\ tickPc' = "idle") ]_vars

\* A frame is under way, with the next one requested, for a player who
\* walks and carries an item.
C18_Witness ==
    /\ tickPc = "running" /\ frameRequests = 1
    /\ moveForward # 0 /\ carryingItem # NULL

-----------------------------------------------------------------------------
\* The step completes a load.
LoadStep ==
    \/ playerLoad' # playerLoad \/ binLoad' # binLoad
    \/ packLoad' # packLoad \/ extraLoad' # extraLoad

\* List b is list a with zero or more entries appended.
IsPrefix(a, b) ==
    /\ Len(a) <= Len(b)
    /\ \A k \in 1..Len(a) : b[k] = a[k]

-----------------------------------------------------------------------------
(* The life of a component whose loads may fail: each request is answered  *)
(* once, by its load callback or by its error callback.  The player only   *)
(* walks forward and interacts.                                            *)

PlayerFailed == Idle /\ LoadPlayerError /\ UNCHANGED <<afterEnd, queryVars, loopVars, tally>>
BinFailed ==
    \E i \in 1..Len(binConfigs) :
        Idle /\ LoadBinError(i) /\ UNCHANGED <<afterEnd, queryVars, loopVars, tally>>
TrashFailed == Idle /\ LoadTrashError /\ UNCHANGED <<afterEnd, queryVars, loopVars, tally>>
ExtraFailed ==
    \E j \in 1..Len(extraConfigs) :
        Idle /\ LoadExtraError(j) /\ UNCHANGED <<afterEnd, queryVars, loopVars, tally>>

FailNext ==
    \/ WalkKeyDown
    \/ WalkKeyUp
    \/ Tick
    \/ PlayerLoaded
    \/ BinLoaded
    \/ TrashLoaded
    \/ ExtraLoaded
    \/ PlayerFailed
    \/ BinFailed
    \/ TrashFailed
    \/ ExtraFailed

FailSpec == Init /\ [][FailNext]_vars

\* The step is the failure of a load.
FailStep ==
    \/ playerLoad' = "failed" /\ playerLoad # "failed"
    \/ packLoad' = "failed" /\ packLoad # "failed"
    \/ \E i \in 1..Len(binConfigs) : binLoad'[i] = "failed" /\ binLoad[i] # "failed"
    \/ \E j \in 1..Len(extraConfigs) : extraLoad'[j] = "failed" /\ extraLoad[j] # "failed"

\* Some load has failed.
SomeLoadFailed ==
    \/ playerLoad = "failed" \/ packLoad = "failed"
    \/ \E i \in 1..Len(binConfigs) : binLoad[i] = "failed"
    \/ \E j \in 1..Len(extraConfigs) : extraLoad[j] = "failed"

\* Frames, key events, interacts and the completion of every load still
\* pending can happen.
NothingBlocked ==
    /\ ENABLED Tick
    /\ ENABLED WalkKeyDown
    /\ ENABLED WalkKeyUp
    /\ ENABLED Interact
    /\ playerLoad = "pending" => ENABLED PlayerLoaded
    /\ packLoad = "pending" => ENABLED TrashLoaded
    /\ \A i \in 1..Len(binConfigs) : binLoad[i] = "pending" => ENABLED LoadBinOk(i)
    /\ \A j \in 1..Len(extraConfigs) : extraLoad[j] = "pending" => ENABLED LoadExtraOk(j)

(* C20.  The failure of a load (of the player model, a bin, the trash pack *)
(* or an extra trash model) leaves the floor list, the bins, the carry     *)
(* slot, the score and the game state as they were, and in every state     *)
(* after a failure frames, key events, interacts and the completion of the *)
(* loads still pending remain possible.                                    *)
C20_FailedLoad ==
    /\ [][ FailStep => UNCHANGED <<trashItems, bins, carryingItem, score, gameState>> ]_vars
    /\ [](SomeLoadFailed => NothingBlocked)

\* The trash pack and the first bin have failed to load; the player has
\* walked to the middle bin and deposited an item of the extra model there.
C20_Witness ==
    /\ packLoad = "failed" /\ binLoad[1] = "failed"
    /\ score = 1 /\ playerPos # <<0, 0>>

-----------------------------------------------------------------------------
(* C21.  In every reachable state the score lies between -2 and 5, and it  *)
(* determines the game state: the game is won exactly when the score is 5, *)
(* lost exactly when it is -2, and being played exactly when the score is  *)
(* strictly between the two; the win menu is shown exactly in the won      *)
(* state, the lose menu exactly in the lost state, and never both.         *)
C21_ScoreDeterminesState ==
    /\ score \in -2..5
    /\ gameState \in {"playing", "win", "lose"}
    /\ gameState = "win" <=> score = 5
    /\ gameState = "lose" <=> score = -2
    /\ gameState = "playing" <=> (-2 < score /\ score < 5)
    /\ showWinMenu <=> gameState = "win"
    /\ showLoseMenu <=> gameState = "lose"
    /\ ~(showWinMenu /\ showLoseMenu)

\* A game lost after a correct deposit: the score has gone up and then down
\* to the losing score, and the lose menu alone is shown.
C21_Witness ==
    /\ gameState = "lose" /\ score = -2 /\ showLoseMenu /\ ~showWinMenu
    /\ tally.correct >= 1

-----------------------------------------------------------------------------
(* The end of a game among the bins: every asset is loaded, and each trash *)
(* object lies at one of two places next to the bins, so that a game can   *)
(* end with trash on the floor within the player's reach.  The player      *)
(* walks forward, turns left and interacts.                                *)

\* Two places of the random area, 19 units from where the player stands at
\* the general bin and at the reciclable bin.
EndSpots == { <<0, 170>>, <<189, 170>> }

EndKeys == {"w", "a", "e"}

InitEnd ==
    /\ playerLoad = "done"
    /\ binLoad = [i \in 1..Len(binConfigs) |-> "done"]
    /\ packLoad = "done"
    /\ extraLoad = [j \in 1..Len(extraConfigs) |-> "done"]
    /\ player = TRUE
    /\ playerPos = <<0, 0>>
    /\ playerRot = 0
    /\ walkAction = "paused"
    /\ moveForward = 0
    /\ turn = 0
    /\ \E rnd \in [TrashIds -> EndSpots] :
          objects = [id \in TrashIds |->
                       [type |-> TypeOf(AllConfigs, id), pos |-> rnd[id], parent |-> "scene"]]
    /\ trashItems = SpawnOrder(trashConfigs) \o SpawnOrder(extraConfigs)
    /\ bins = [i \in 1..Len(binConfigs) |->
                 [type |-> binConfigs[i].type, pos |-> binConfigs[i].pos]]
    /\ carryingItem = NULL
    /\ recycledCount = [t \in TrashType |-> 0]
    /\ score = 0
    /\ gameState = "playing"
    /\ showWinMenu = FALSE
    /\ showLoseMenu = FALSE
    /\ hudMessage = Msg("", "-", 0)
    /\ destroyed = FALSE
    /\ afterEnd = "none"
    /\ InitQuery
    /\ InitLoop
    /\ InitTally

EndKeyDown == \E k \in EndKeys : KeyDownOf(k)
EndKeyUp == \E k \in EndKeys : KeyUpOf(k)

EndNext ==
    \/ EndKeyDown
    \/ EndKeyUp
    \/ Tick

EndSpec == InitEnd /\ [][EndNext]_vars

\* Some trash on the floor is strictly within pickupDistance of the player.
TrashWithinPickup == \E id \in FloorSet : WithinPickup(id)

(* C22.  In every reachable state where the game is won or lost the carry  *)
(* slot is empty; a step that ends the game is one that empties the carry  *)
(* slot; and once the game is over no step, and no interact key in         *)
(* particular, puts an item in the carry slot.                             *)
C22_TerminalEmptyHanded ==
    /\ [](gameState \in {"win", "lose"} => carryingItem = NULL)
    /\ [][ (gameState = "playing" /\ gameState' # "playing")
              => (carryingItem # NULL /\ carryingItem' = NULL) ]_vars
    /\ [][ (gameState # "playing") => carryingItem' = NULL ]_vars
    /\ [](gameState \in {"win", "lose"}
              => ~ENABLED (InteractStep /\ carryingItem' # NULL))

\* The game is lost with trash on the floor within the player's reach, an
\* interact key or another has been pressed since, and the hands are empty.
C22_Witness ==
    /\ gameState = "lose" /\ afterEnd = "keydown"
    /\ TrashWithinPickup /\ carryingItem = NULL

-----------------------------------------------------------------------------
\* 1 when an item is carried, 0 otherwise.
CarriedCount == IF carryingItem # NULL THEN 1 ELSE 0

(* C23.  Conservation of trash.  In every reachable state the items on the *)
(* floor list, the carried item if there is one, the correct deposits and  *)
(* the wrong deposits seen so far add up to the trash items spawned so     *)
(* far, and the deposits are the items discarded; the per-type counts add  *)
(* up to the correct deposits; the score is the correct deposits less the  *)
(* wrong ones; and so there are at most as many deposits as spawned items. *)
C23_Conservation ==
    /\ Len(trashItems) + CarriedCount + tally.correct + tally.wrong
          = Cardinality(Spawned)
    /\ Cardinality(Deposited) = tally.correct + tally.wrong
    /\ CorrectDeposits = tally.correct
    /\ score = tally.correct - tally.wrong
    /\ tally.correct + tally.wrong <= Cardinality(Spawned)

\* Before every trash object is spawned, one item has been deposited in the
\* right bin and one in a wrong bin, and another is carried.
C23_Witness ==
    /\ tally.correct >= 1 /\ tally.wrong >= 1
    /\ carryingItem # NULL
    /\ Cardinality(Spawned) < Cardinality(TrashIds)

=============================================================================
